---- MODULE Spec2Model ----
(***************************************************************************)
(* State-machine model of the per-chat search lifecycle of IranTrainBot:   *)
(* the update handler (TelegramBot.handle_callback_query /                 *)
(* process_messages), the polling threads (AlibabaTrainScraper,            *)
(* AlibabaFlightScraper) and the delivery thread (TelegramBot.notify_user).*)
(* One chat is modelled; every dict of TelegramBot keyed by chat_id is a   *)
(* variable holding that chat's entry.                                     *)
(***************************************************************************)
EXTENDS Integers, Sequences, FiniteSets, TLC

\* ------------------------------------------------------------------ bounds
\* clear_search_state calls the handler may begin in one run.
MaxClears == 2
\* Batches the results queue may hold before a producer has to wait.
MaxQueue == 2
\* Midnights that may pass at the provider while a search runs.
MaxToday == 1
\* Items one provider answer may hold when paging is examined.
MaxItems == 23
\* Days added to today for the default date range (config DEFAULT_SEARCH_DAYS).
SearchDays == 1
\* Characters a city text command may carry.
MaxInput == 3

\* ------------------------------------------------------- program constants
batch_size == 10

\* @retry(..., stop=stop_after_attempt(5), ...)
stop_after_attempt == 5

\* ---------------------------------------------------------------- optionals
\* A dict entry that is absent or None is the empty tuple, a value v is <<v>>.
None == <<>>

Some(v) == <<v>>

Val(o) == o[1]

\* ------------------------------------------------------------------- items
\* leaveDateTime is the ISO-8601 text "2025-03-2dTHh:00:00" of which only the
\* varying characters are kept: <<d, H, h>> (day digit, hour tens, hour units).
F1 == [flightNumber |-> 1, leaveDateTime |-> <<0, 1, 4>>, priceAdult |-> 8000000, seat |-> 3]

F2 == [flightNumber |-> 2, leaveDateTime |-> <<0, 0, 9>>, priceAdult |-> 12000000, seat |-> 1]

F3 == [flightNumber |-> 3, leaveDateTime |-> <<0, 1, 4>>, priceAdult |-> 5000000, seat |-> 2]

F4 == [flightNumber |-> 4, leaveDateTime |-> <<1, 0, 6>>, priceAdult |-> 25000000, seat |-> 4]

\* A departure for which the provider sent no arrivalDateTime: flight.get()
\* stored None under that key.
F5 == [flightNumber |-> 5, leaveDateTime |-> <<0, 0, 7>>, arrivalDateTime |-> <<>>,
       priceAdult |-> 6000000, seat |-> 2]

\* A departure for which the provider sent no leaveDateTime.
F6 == [flightNumber |-> 6, leaveDateTime |-> <<>>, priceAdult |-> 7000000, seat |-> 1]

\* The dict built by AlibabaTrainScraper.get_trains_for_date has these keys only.
T1 == [departure |-> <<0, 0, 8>>, seat |-> 5, price |-> 3000000]

T2 == [departure |-> <<1, 1, 6>>, seat |-> 2, price |-> 4000000]

\* ------------------------------------------------------------------ cities
\* A text is the sequence of its characters; a Persian letter is written by
\* its name.
THR == <<"T", "H", "R">>

RHD == <<"R", "H", "D">>

SYZ == <<"S", "Y", "Z">>

\* Three members of the enum TrainCity, in the enum's order.
TrainCity ==
    << [name |-> <<"te", "he", "re", "alef", "nun">>, value |-> THR],
       [name |-> <<"re", "shin", "te">>, value |-> RHD],
       [name |-> <<"shin", "ye", "re", "alef", "ze">>, value |-> SYZ] >>

\* The texts of at most MaxInput characters over an alphabet.
Texts(alphabet) == UNION {[1..n -> alphabet] : n \in 0..MaxInput}

\* What may follow 'origin:' / 'destination:', after strip() and upper().
CityInputs == Texts({"T", "H", "R", "D"}) \cup Texts({"re", "shin", "te"})

\* difflib.SequenceMatcher: the blocks a[i:i+k] = b[j:j+k], as <<i, j, k>>.
Blocks(a, b) ==
    {m \in (1..Len(a)) \X (1..Len(b)) \X (1..Len(a)) :
        /\ m[1] + m[3] - 1 <= Len(a)
        /\ m[2] + m[3] - 1 <= Len(b)
        /\ SubSeq(a, m[1], m[1] + m[3] - 1) = SubSeq(b, m[2], m[2] + m[3] - 1)}

\* find_longest_match: a longest block; of these the one that starts earliest
\* in a, and of these the one that starts earliest in b.
find_longest_match(a, b) ==
    CHOOSE m \in Blocks(a, b) :
        \A n \in Blocks(a, b) :
            \/ n[3] < m[3]
            \/ n[3] = m[3] /\ m[1] < n[1]
            \/ n[3] = m[3] /\ m[1] = n[1] /\ m[2] <= n[2]

\* get_matching_blocks: the longest block, then the same to its left and to
\* its right; the result is the number of matched characters.
RECURSIVE matches(_, _)
matches(a, b) ==
    IF Blocks(a, b) = {} THEN 0
    ELSE LET m == find_longest_match(a, b)
         IN m[3] + matches(SubSeq(a, 1, m[1] - 1), SubSeq(b, 1, m[2] - 1))
                 + matches(SubSeq(a, m[1] + m[3], Len(a)), SubSeq(b, m[2] + m[3], Len(b)))

\* int(round(n / d)): Python rounds a half to the even neighbour.
intr(n, d) ==
    LET q == n \div d
        r == n % d
    IN IF 2 * r < d THEN q
       ELSE IF 2 * r > d THEN q + 1
       ELSE IF q % 2 = 0 THEN q ELSE q + 1

\* fuzz.ratio(s1, s2): 0 for an empty text, else 100 * 2M / T rounded.
ratio(s1, s2) ==
    IF Len(s1) = 0 \/ Len(s2) = 0 THEN 0
    ELSE intr(200 * matches(s1, s2), Len(s1) + Len(s2))

\* The for loop over TrainCity from city k on: <<best_match, highest_ratio>>,
\* best_match being the city's position, 0 for None.
RECURSIVE best_match(_, _, _, _)
best_match(city_input, k, best, highest) ==
    IF k > Len(TrainCity) THEN <<best, highest>>
    ELSE LET ratio_name == ratio(city_input, TrainCity[k].name)
             ratio_code == ratio(city_input, TrainCity[k].value)
             by_name == IF ratio_name > highest THEN <<k, ratio_name>> ELSE <<best, highest>>
             by_code == IF ratio_code > by_name[2] THEN <<k, ratio_code>> ELSE by_name
         IN best_match(city_input, k + 1, by_code[1], by_code[2])

\* `if best_match and highest_ratio > 80`
Accepted(found) == found[1] # 0 /\ found[2] > 80

\* Dates are day numbers; 0 is the day the chat's date range was set.
Dates == 0..SearchDays

\* The provider: what a query for a date may answer, per kind, and the
\* provider's current date.
Provider(flight, train) == [flight |-> flight, train |-> train, today |-> 0]

Always(answers) == [d \in Dates |-> answers]

SmallProvider == Provider(Always({<<>>, <<F1>>}), Always({<<>>, <<T1>>}))

\* Event objects: one per clear_search_state call, after the chat's first one;
\* a search's threads carry the id of the Event the search was started with.
EventIds == 1..(MaxClears + 2)

VARIABLES
    stop_events,          \* id of the chat's current Event object, 0: no entry
    events,               \* Event object id -> is_set()
    availability_queues,  \* the chat's Queue: sequence of batches
    pending_flights,      \* items recorded as delivered
    waiting_for_more,
    current_search_type,  \* "None", "train", "flight"
    origin, destination,  \* None or Some(city code)
    start_date, end_date, \* None or Some(day number)
    price_filters, time_filters, seat_filters,
    settings_changed,     \* settings_changed.get(chat_id, False)
    scraper_threads,      \* id of the thread last stored for the chat, 0: none
    notify_threads,
    scr,                  \* thread id -> polling thread (scraper object + frame)
    ntf,                  \* thread id -> notify_user frame
    hpc, hop, hkind,      \* update handler: position, callback data, captured kind
    provider,             \* the answers the external provider may give
    budget,               \* clear_search_state calls the run may still begin
    others,               \* the dicts' entries under another chat_id: None or a session
    stopped,              \* history: 'stop' set the stop event and no search started since
    restart,              \* history: check_trains re-armed a running train search
    answered,             \* history: 'more' was handled after a prompt, no item sent since
    reply                 \* history: translation key of the last reply to a text command
                          \* or to 'reset'

vars == <<stop_events, events, availability_queues, pending_flights, waiting_for_more,
          current_search_type, origin, destination, start_date, end_date, price_filters,
          time_filters, seat_filters, settings_changed, scraper_threads, notify_threads,
          scr, ntf, hpc, hop, hkind, provider, budget, others, stopped, restart,
          answered, reply>>

session == <<stop_events, events, availability_queues, pending_flights, waiting_for_more,
             current_search_type>>

params == <<origin, destination, start_date, end_date>>

\* The filters and the flag that records a change of the settings.
filters == <<price_filters, time_filters, seat_filters, settings_changed>>

threads == <<scraper_threads, notify_threads, scr, ntf>>

handler == <<hpc, hop, hkind>>

history == <<stopped, restart, answered, reply>>

env == <<provider, budget, others>>

NoScraper == [pc |-> "none", kind |-> "None", ev |-> 0, origin |-> None,
              destination |-> None, current_date |-> 0, start |-> None, end |-> None,
              info |-> <<>>, attempt |-> 0]

NoNotify == [pc |-> "none", search_type |-> "None", current_items |-> <<>>,
             new_items |-> <<>>, batch |-> <<>>, i |-> 0, first |-> 0]

\* A thread whose function returned ("done") or raised ("dead"): its frame is gone.
ScraperEnded(how) == [NoScraper EXCEPT !.pc = how]

NotifyEnded == [NoNotify EXCEPT !.pc = "done"]

\* The state after TelegramBot.__init__: every dict empty, no thread.
Init ==
    /\ stop_events = 0
    /\ events = [e \in EventIds |-> FALSE]
    /\ availability_queues = <<>>
    /\ pending_flights = <<>>
    /\ waiting_for_more = FALSE
    /\ current_search_type = "None"
    /\ origin = None
    /\ destination = None
    /\ start_date = None
    /\ end_date = None
    /\ price_filters = None
    /\ time_filters = None
    /\ seat_filters = None
    /\ settings_changed = FALSE
    /\ scraper_threads = 0
    /\ notify_threads = 0
    /\ scr = [t \in EventIds |-> NoScraper]
    /\ ntf = [t \in EventIds |-> NoNotify]
    /\ hpc = "idle"
    /\ hop = "none"
    /\ hkind = "None"
    /\ provider = SmallProvider
    /\ budget = MaxClears
    /\ others = None
    /\ stopped = FALSE
    /\ restart = "no"
    /\ answered = FALSE
    /\ reply = None

\* ------------------------------------------------- filter and sort (notify_user)
is_train(item) == "trainNumber" \in DOMAIN item

\* item.get(key, default)
Get(item, key, default) == IF key \in DOMAIN item THEN item[key] ELSE default

\* `if x:` on a dict entry: absent, None and 0 are all false.
Truthy(o) == o # None /\ Val(o) # 0

KindOK(search_type, item) ==
    \/ search_type = "train" /\ is_train(item)
    \/ search_type = "flight" /\ ~is_train(item)

\* datetime.fromisoformat(item['leaveDateTime']).hour, or the sliced text
departure_hour(item) == item.leaveDateTime[2] * 10 + item.leaveDateTime[3]

InBucket(bucket, hour) ==
    /\ bucket = "morning" => (6 <= hour /\ hour < 12)
    /\ bucket = "afternoon" => (12 <= hour /\ hour < 18)
    /\ bucket = "evening" => (18 <= hour /\ hour < 24)

\* The body of the for loop once the kind test let the item through.
PassesFilters(item, pf, tf, sf) ==
    LET price == Get(item, "priceAdult", 0)
        seats == Get(item, "seat", 0)
    IN /\ ~(Truthy(pf) /\ price >= Val(pf))
       /\ ~(Truthy(sf) /\ seats < Val(sf))
       /\ (tf # None => InBucket(Val(tf), departure_hour(item)))
       /\ seats > 0

\* item['leaveDateTime'] of an item that has no such key is a KeyError, and
\* .replace on a None stored under it an AttributeError; neither is the
\* ValueError the filter catches, so the loop's outer `except Exception`
\* catches it: the whole batch is lost.
Raises(search_type, new_items) ==
    \E k \in 1..Len(new_items) :
        /\ KindOK(search_type, new_items[k])
        /\ \/ "leaveDateTime" \notin DOMAIN new_items[k]
           \/ new_items[k].leaveDateTime = None

\* Rendering an item: item['arrivalDateTime'].replace(...) on None is an
\* AttributeError, which the `except ValueError` around it does not catch.
RenderRaises(item) == "arrivalDateTime" \in DOMAIN item /\ item.arrivalDateTime = None

\* Comparison of two texts of equal length, character by character.
StrLess(a, b) ==
    \E k \in 1..Len(a) : (\A j \in 1..(k - 1) : a[j] = b[j]) /\ a[k] < b[k]

\* key=lambda x: x['priceAdult']
PriceLE(x, y) == x.priceAdult <= y.priceAdult

\* key=lambda x: (x['leaveDateTime'], x['priceAdult'])
KeyLE(x, y) ==
    \/ StrLess(x.leaveDateTime, y.leaveDateTime)
    \/ x.leaveDateTime = y.leaveDateTime /\ x.priceAdult <= y.priceAdult

\* The item at position j comes before the item at position k in the sorted
\* list: its key is smaller, or the keys are equal and it stood before it.
Before(s, j, k) ==
    IF KeyLE(s[j], s[k]) /\ KeyLE(s[k], s[j]) THEN j < k ELSE KeyLE(s[j], s[k])

\* list.sort: stable, ascending by key
sort(s) ==
    [p \in 1..Len(s) |->
        s[CHOOSE k \in 1..Len(s) :
            Cardinality({j \in 1..Len(s) : Before(s, j, k)}) = p - 1]]

valid_items(search_type, new_items, pf, tf, sf) ==
    sort(SelectSeq(new_items,
                   LAMBDA item : KindOK(search_type, item) /\ PassesFilters(item, pf, tf, sf)))

\* ------------------------------------------------------------------ threads
Alive(pc) == pc \notin {"none", "done", "dead"}

is_set(e) == events[e]

\* current_items[:batch_size - 1]
TakeShort(s, n) == SubSeq(s, 1, IF Len(s) < n - 1 THEN Len(s) ELSE n - 1)

Take(s, n) == SubSeq(s, 1, IF Len(s) < n THEN Len(s) ELSE n)

Drop(s, n) == SubSeq(s, n + 1, Len(s))

\* notify_user is inside a send_message call (an item of the page, the prompt).
Sending(t) ==
    \/ ntf[t].pc = "send" /\ ntf[t].i <= Len(ntf[t].batch)
    \/ ntf[t].pc = "prompt"

\* `chat_id in self.scraper_threads and self.scraper_threads[chat_id].is_alive()`
ScraperAlive == IF scraper_threads = 0 THEN FALSE ELSE Alive(scr[scraper_threads].pc)

NotifyAlive == IF notify_threads = 0 THEN FALSE ELSE Alive(ntf[notify_threads].pc)

\* ---- AlibabaTrainScraper.collect_trains
\* `while not self.stop_event.is_set()`, then the cycle's first statements.
TrainTop(t) ==
    /\ scr[t].pc = "top"
    /\ scr' = [scr EXCEPT ![t] =
          IF is_set(scr[t].ev) THEN ScraperEnded("done")
          ELSE IF scr[t].start = None \/ scr[t].end = None
               THEN ScraperEnded("dead")
               ELSE [@ EXCEPT !.pc = "inner", !.info = <<>>,
                              !.current_date = Val(scr[t].start)]]
    /\ UNCHANGED <<session, params, filters, scraper_threads, notify_threads, ntf,
                   handler, env, history>>

\* `while current_date <= end_date_obj` and the stop test before each date.
TrainInner(t) ==
    /\ scr[t].pc = "inner"
    /\ scr' = [scr EXCEPT ![t] =
          IF scr[t].current_date > Val(scr[t].end) THEN [@ EXCEPT !.pc = "top"]
          ELSE IF is_set(scr[t].ev) THEN ScraperEnded("done")
          ELSE [@ EXCEPT !.pc = "fetch", !.attempt = 1]]
    /\ UNCHANGED <<session, params, filters, scraper_threads, notify_threads, ntf,
                   handler, env, history>>

\* get_trains_for_date returns, then the put and the date increment.
TrainFetch(t) ==
    /\ scr[t].pc = "fetch"
    /\ scr[t].kind = "train"
    /\ \E answer \in provider.train[scr[t].current_date] :
          LET trains_info == scr[t].info \o answer
          IN /\ trains_info # <<>> => Len(availability_queues) < MaxQueue
             /\ availability_queues' =
                   IF trains_info # <<>> THEN Append(availability_queues, trains_info)
                   ELSE availability_queues
             /\ scr' = [scr EXCEPT ![t] = [@ EXCEPT !.pc = "inner", !.info = trains_info,
                                                   !.current_date = @ + 1,
                                                   !.attempt = 0]]
    /\ UNCHANGED <<stop_events, events, pending_flights, waiting_for_more,
                   current_search_type, params, filters, scraper_threads, notify_threads,
                   ntf, handler, env, history>>

\* ---- AlibabaFlightScraper.collect_flights
\* The two strptime calls before the loop.
FlightBegin(t) ==
    /\ scr[t].pc = "begin"
    /\ scr' = [scr EXCEPT ![t] =
          IF scr[t].start = None \/ scr[t].end = None THEN ScraperEnded("dead")
          ELSE [@ EXCEPT !.pc = "loop", !.current_date = Val(scr[t].start)]]
    /\ UNCHANGED <<session, params, filters, scraper_threads, notify_threads, ntf,
                   handler, env, history>>

\* `while current_date_obj <= end_date_obj and not self.stop_event.is_set()`
FlightLoop(t) ==
    /\ scr[t].pc = "loop"
    /\ scr' = [scr EXCEPT ![t] =
          IF scr[t].current_date <= Val(scr[t].end) /\ ~is_set(scr[t].ev)
          THEN [@ EXCEPT !.pc = "fetch", !.attempt = 1]
          ELSE ScraperEnded("done")]
    /\ UNCHANGED <<session, params, filters, scraper_threads, notify_threads, ntf,
                   handler, env, history>>

\* get_flights_for_date returns, then the put and the date increment.
FlightFetch(t) ==
    /\ scr[t].pc = "fetch"
    /\ scr[t].kind = "flight"
    /\ scr[t].current_date >= provider.today
    /\ \E answer \in provider.flight[scr[t].current_date] :
          LET flights_info == scr[t].info \o answer
          IN /\ flights_info # <<>> => Len(availability_queues) < MaxQueue
             /\ availability_queues' =
                   IF flights_info # <<>> THEN Append(availability_queues, flights_info)
                   ELSE availability_queues
             /\ scr' = [scr EXCEPT ![t] = [@ EXCEPT !.pc = "loop", !.info = flights_info,
                                                   !.current_date = @ + 1,
                                                   !.attempt = 0]]
    /\ UNCHANGED <<stop_events, events, pending_flights, waiting_for_more,
                   current_search_type, params, filters, scraper_threads, notify_threads,
                   ntf, handler, env, history>>

\* get_flights_for_date with a date before the provider's (UTC) today: an
\* error is logged and the function returns before any request; the put of
\* the list collected so far and the date increment follow as after any return.
FlightReject(t) ==
    /\ scr[t].pc = "fetch"
    /\ scr[t].kind = "flight"
    /\ scr[t].current_date < provider.today
    /\ scr[t].info # <<>> => Len(availability_queues) < MaxQueue
    /\ availability_queues' =
          IF scr[t].info # <<>> THEN Append(availability_queues, scr[t].info)
          ELSE availability_queues
    /\ scr' = [scr EXCEPT ![t] = [@ EXCEPT !.pc = "loop", !.current_date = @ + 1,
                                          !.attempt = 0]]
    /\ UNCHANGED <<stop_events, events, pending_flights, waiting_for_more,
                   current_search_type, params, filters, scraper_threads, notify_threads,
                   ntf, handler, env, history>>

\* The fetch is at its request: the train client always, the flight client
\* for a date it did not reject.
Requesting(t) ==
    /\ scr[t].pc = "fetch"
    /\ scr[t].kind = "flight" => scr[t].current_date >= provider.today

\* Every attempt of the tenacity-wrapped fetch raised a request exception: the
\* exception leaves collect_trains / collect_flights, which catch nothing.
\* The attempts and the waits between them are taken as one step.
FetchFails(t) ==
    /\ Requesting(t)
    /\ scr[t].attempt = 1
    /\ scr' = [scr EXCEPT ![t] = ScraperEnded("dead")]
    /\ UNCHANGED <<session, params, filters, scraper_threads, notify_threads, ntf,
                   handler, env, history>>

\* ---- the retry wrapper, attempt by attempt
\* An attempt raised a request exception and stop_after_attempt is not
\* reached: after wait_fixed(5) the function is called again.
AttemptFails(t) ==
    /\ Requesting(t)
    /\ scr[t].attempt < stop_after_attempt
    /\ scr' = [scr EXCEPT ![t].attempt = @ + 1]
    /\ UNCHANGED <<session, params, filters, scraper_threads, notify_threads, ntf,
                   handler, env, history>>

\* A wrapper without retry: the exception of any attempt leaves the fetch.
AnyAttemptFails(t) ==
    /\ Requesting(t)
    /\ scr' = [scr EXCEPT ![t] = ScraperEnded("dead")]
    /\ UNCHANGED <<session, params, filters, scraper_threads, notify_threads, ntf,
                   handler, env, history>>

\* The attempt that reaches stop_after_attempt raised: the wrapper raises
\* RetryError, which nothing in the thread catches.
LastAttemptFails(t) ==
    /\ Requesting(t)
    /\ scr[t].attempt = stop_after_attempt
    /\ scr' = [scr EXCEPT ![t] = ScraperEnded("dead")]
    /\ UNCHANGED <<session, params, filters, scraper_threads, notify_threads, ntf,
                   handler, env, history>>

\* ---- the provider's clock
\* Midnight passes at the provider.
Midnight ==
    /\ provider.today < MaxToday
    /\ provider' = [provider EXCEPT !.today = @ + 1]
    /\ UNCHANGED <<session, params, filters, threads, handler, budget, others, history>>

\* ---- TelegramBot.notify_user
\* The statements before the loop: the locals and the per-chat initialisation.
NotifyInit(t) ==
    /\ ntf[t].pc = "init"
    /\ ntf' = [ntf EXCEPT ![t] = [@ EXCEPT !.pc = "top", !.search_type = current_search_type,
                                          !.current_items = <<>>]]
    /\ waiting_for_more' = FALSE
    /\ pending_flights' = <<>>
    /\ UNCHANGED <<stop_events, events, availability_queues, current_search_type, params,
                   filters, scraper_threads, notify_threads, scr, handler, env,
                   history>>

\* `while not self.stop_events[chat_id].is_set()`: the dict is read on every test.
NotifyTop(t) ==
    /\ ntf[t].pc = "top"
    /\ ntf' = [ntf EXCEPT ![t] = IF is_set(stop_events) THEN NotifyEnded
                                  ELSE [@ EXCEPT !.pc = "chk_wait"]]
    /\ UNCHANGED <<session, params, filters, scraper_threads, notify_threads, scr, handler,
                   env, history>>

\* A loop that asks the queue for a batch whatever its buffer holds.
NotifyChkWaitAny(t) ==
    /\ ntf[t].pc = "chk_wait"
    /\ ntf' = [ntf EXCEPT ![t].pc = IF waiting_for_more THEN "top" ELSE "get"]
    /\ UNCHANGED <<session, params, filters, scraper_threads, notify_threads, scr, handler,
                   env, history>>

\* `if self.waiting_for_more.get(chat_id, False)` and `if len(current_items) == 0`
NotifyChkWait(t) ==
    /\ ntf[t].pc = "chk_wait"
    /\ ntf' = [ntf EXCEPT ![t].pc =
          IF waiting_for_more THEN "top"
          ELSE IF ntf[t].current_items = <<>> THEN "get"
          ELSE "chk_send"]
    /\ UNCHANGED <<session, params, filters, scraper_threads, notify_threads, scr, handler,
                   env, history>>

\* A LifoQueue: get returns the batch that was put last.
NotifyGetLast(t) ==
    /\ ntf[t].pc = "get"
    /\ IF availability_queues = <<>>
       THEN /\ ntf' = [ntf EXCEPT ![t].pc = "top"]
            /\ UNCHANGED availability_queues
       ELSE LET new_items == availability_queues[Len(availability_queues)]
            IN /\ availability_queues' =
                     SubSeq(availability_queues, 1, Len(availability_queues) - 1)
               /\ ntf' = [ntf EXCEPT ![t] =
                     IF Raises(ntf[t].search_type, new_items)
                     THEN [@ EXCEPT !.pc = "top"]
                     ELSE [@ EXCEPT !.pc = "chk_send", !.new_items = new_items,
                                    !.current_items =
                                        @ \o valid_items(ntf[t].search_type, new_items,
                                                         price_filters, time_filters,
                                                         seat_filters)]]
    /\ UNCHANGED <<stop_events, events, pending_flights, waiting_for_more,
                   current_search_type, params, filters, scraper_threads, notify_threads,
                   scr, handler, env, history>>

\* get(timeout=1): Empty after the timeout, or a batch, which is filtered,
\* sorted and appended to the buffer.
NotifyGet(t) ==
    /\ ntf[t].pc = "get"
    /\ IF availability_queues = <<>>
       THEN /\ ntf' = [ntf EXCEPT ![t].pc = "top"]
            /\ UNCHANGED availability_queues
       ELSE LET new_items == Head(availability_queues)
            IN /\ availability_queues' = Tail(availability_queues)
               /\ ntf' = [ntf EXCEPT ![t] =
                     IF Raises(ntf[t].search_type, new_items)
                     THEN [@ EXCEPT !.pc = "top"]
                     ELSE [@ EXCEPT !.pc = "chk_send", !.new_items = new_items,
                                    !.current_items =
                                        @ \o valid_items(ntf[t].search_type, new_items,
                                                         price_filters, time_filters,
                                                         seat_filters)]]
    /\ UNCHANGED <<stop_events, events, pending_flights, waiting_for_more,
                   current_search_type, params, filters, scraper_threads, notify_threads,
                   scr, handler, env, history>>

\* `if len(current_items) > 0 and not waiting_for_more`: the page is cut and
\* enumerate's start is computed.
NotifyChkSend(t) ==
    /\ ntf[t].pc = "chk_send"
    /\ ntf' = [ntf EXCEPT ![t] =
          IF Len(ntf[t].current_items) > 0 /\ ~waiting_for_more
          THEN [@ EXCEPT !.pc = "send", !.batch = Take(ntf[t].current_items, batch_size),
                         !.i = 1, !.first = Len(pending_flights) + 1, !.new_items = <<>>]
          ELSE [@ EXCEPT !.pc = "top", !.new_items = <<>>]]
    /\ UNCHANGED <<session, params, filters, scraper_threads, notify_threads, scr, handler,
                   env, history>>

\* One turn of the for loop: the item is rendered and sent.
NotifySend(t) ==
    /\ ntf[t].pc = "send"
    /\ ntf[t].i <= Len(ntf[t].batch)
    /\ ~RenderRaises(ntf[t].batch[ntf[t].i])
    /\ ntf' = [ntf EXCEPT ![t].i = @ + 1]
    /\ restart' = IF restart = "armed" THEN "no" ELSE restart
    /\ answered' = FALSE
    /\ UNCHANGED <<session, params, filters, scraper_threads, notify_threads, scr, handler,
                   env, stopped, reply>>

\* An `except` that leaves the for loop: the rest of the page is not sent.
NotifyAbort(t) ==
    /\ ntf[t].pc = "send"
    /\ ntf[t].i <= Len(ntf[t].batch)
    /\ RenderRaises(ntf[t].batch[ntf[t].i])
    /\ ntf' = [ntf EXCEPT ![t].i = Len(ntf[t].batch) + 1]
    /\ UNCHANGED <<session, params, filters, scraper_threads, notify_threads, scr, handler,
                   env, history>>

\* One turn of the for loop in which rendering raises: the inner
\* `except Exception` logs the error and continues with the next item.
NotifySkip(t) ==
    /\ ntf[t].pc = "send"
    /\ ntf[t].i <= Len(ntf[t].batch)
    /\ RenderRaises(ntf[t].batch[ntf[t].i])
    /\ ntf' = [ntf EXCEPT ![t].i = @ + 1]
    /\ UNCHANGED <<session, params, filters, scraper_threads, notify_threads, scr, handler,
                   env, history>>

\* After the for loop: the page is recorded and removed from the buffer, and
\* the test that decides whether a prompt follows is made.
NotifyExtend(t) ==
    /\ ntf[t].pc = "send"
    /\ ntf[t].i > Len(ntf[t].batch)
    /\ pending_flights' = pending_flights \o ntf[t].batch
    /\ LET rest == Drop(ntf[t].current_items, Len(ntf[t].batch))
       IN ntf' = [ntf EXCEPT ![t] =
             [@ EXCEPT !.current_items = rest, !.batch = <<>>, !.i = 0, !.first = 0,
                       !.pc = IF Len(rest) > 0 \/ ~is_set(stop_events) THEN "prompt"
                              ELSE "top"]]
    /\ UNCHANGED <<stop_events, events, availability_queues, waiting_for_more,
                   current_search_type, params, filters, scraper_threads, notify_threads,
                   scr, handler, env, history>>

\* send_message of the "showing results" prompt with the More button
NotifyPrompt(t) ==
    /\ ntf[t].pc = "prompt"
    /\ ntf' = [ntf EXCEPT ![t].pc = "set_wait"]
    /\ UNCHANGED <<session, params, filters, scraper_threads, notify_threads, scr, handler,
                   env, history>>

\* self.waiting_for_more[chat_id] = True
NotifySetWait(t) ==
    /\ ntf[t].pc = "set_wait"
    /\ waiting_for_more' = TRUE
    /\ ntf' = [ntf EXCEPT ![t].pc = "top"]
    /\ UNCHANGED <<stop_events, events, availability_queues, pending_flights,
                   current_search_type, params, filters, scraper_threads, notify_threads,
                   scr, handler, env, history>>

\* ------------------------------------------------------------ update handler
\* process_messages: a text message; the chat's first one creates its entries.
HandleMessage ==
    /\ hpc = "idle"
    /\ IF stop_events = 0
       THEN /\ origin' = Some(THR)
            /\ destination' = Some(SYZ)
            /\ start_date' = Some(0)
            /\ end_date' = Some(SearchDays)
            /\ stop_events' = 1
            /\ availability_queues' = <<>>
            /\ pending_flights' = <<>>
            /\ waiting_for_more' = FALSE
       ELSE UNCHANGED <<origin, destination, start_date, end_date, stop_events,
                        availability_queues, pending_flights, waiting_for_more>>
    /\ UNCHANGED <<events, current_search_type, filters, threads, handler, env,
                   history>>

\* handle_callback_query, `if chat_id not in self.stop_events`: the Event the
\* chat has once the test has run.
Ensured == IF stop_events = 0 THEN 1 ELSE stop_events

\* A callback whose handling begins with clear_search_state.
BeginClear(data, kind) ==
    /\ hpc = "idle"
    /\ budget > 0
    /\ budget' = budget - 1
    /\ stop_events' = Ensured
    /\ hpc' = "clear_set"
    /\ hop' = data
    /\ hkind' = kind
    /\ UNCHANGED <<events, availability_queues, pending_flights, waiting_for_more,
                   current_search_type, params, filters, threads, provider, others,
                   answered, reply>>

CallbackStop ==
    /\ BeginClear("stop", "None")
    /\ restart' = "no"
    /\ UNCHANGED stopped

CallbackNewSearch ==
    /\ BeginClear("new_search", "None")
    /\ restart' = "no"
    /\ UNCHANGED stopped

CallbackCheckTrains ==
    /\ BeginClear("check_trains", "train")
    /\ restart' = IF current_search_type = "train" THEN "pending" ELSE "no"
    /\ UNCHANGED stopped

CallbackCheckFlights ==
    /\ BeginClear("check_flights", "flight")
    /\ restart' = "no"
    /\ UNCHANGED stopped

\* 'search': restarts the search of the current kind, or only prompts.
CallbackSearch ==
    /\ current_search_type # "None"
    /\ BeginClear("search", current_search_type)
    /\ restart' = "no"
    /\ UNCHANGED stopped

\* A 'reset_yes' that does not keep the kind of the running search.
CallbackResetForget ==
    /\ BeginClear("reset_yes", "None")
    /\ restart' = "no"
    /\ UNCHANGED stopped

\* 'reset_yes': the kind is captured before clear_search_state; with no
\* search active only clear_search_state runs.
CallbackResetYes ==
    /\ BeginClear("reset_yes", current_search_type)
    /\ restart' = "no"
    /\ UNCHANGED stopped

\* A page prompt with the More button has been sent and not been answered.
Prompted == waiting_for_more \/ \E t \in EventIds : ntf[t].pc = "set_wait"

\* 'more'
CallbackMore ==
    /\ hpc = "idle"
    /\ stop_events' = Ensured
    /\ waiting_for_more' = FALSE
    /\ answered' = (answered \/ Prompted)
    /\ UNCHANGED <<events, availability_queues, pending_flights, current_search_type,
                   params, filters, threads, handler, env, stopped, restart, reply>>

\* 'reset_no'
CallbackResetNo ==
    /\ hpc = "idle"
    /\ stop_events' = Ensured
    /\ waiting_for_more' =
          IF current_search_type = "None" \/ availability_queues = <<>>
          THEN waiting_for_more ELSE FALSE
    /\ UNCHANGED <<events, availability_queues, pending_flights, current_search_type,
                   params, filters, threads, handler, env, history>>

\* A 'reset' that offers both buttons whenever a search is active.
CallbackResetBoth ==
    /\ hpc = "idle"
    /\ stop_events' = Ensured
    /\ reply' = IF current_search_type = "None" THEN Some("search.select_search_type")
                ELSE Some("search.reset_confirm")
    /\ UNCHANGED <<events, availability_queues, pending_flights, waiting_for_more,
                   current_search_type, params, filters, threads, handler, env, stopped,
                   restart, answered>>

\* 'reset': the main menu when no search is stored, else a confirmation whose
\* buttons depend on settings_changed.
CallbackReset ==
    /\ hpc = "idle"
    /\ stop_events' = Ensured
    /\ reply' = IF current_search_type = "None" THEN Some("search.select_search_type")
                ELSE IF settings_changed THEN Some("search.reset_confirm_changed")
                ELSE Some("search.reset_confirm")
    /\ UNCHANGED <<events, availability_queues, pending_flights, waiting_for_more,
                   current_search_type, params, filters, threads, handler, env, stopped,
                   restart, answered>>

\* The callback_data of the buttons sent with a reply to 'reset'; the main
\* menu (build_menu) has neither 'reset_yes' nor 'reset_no'.
Buttons(key) ==
    IF key = Some("search.reset_confirm") THEN {"reset_yes", "reset_no"}
    ELSE IF key = Some("search.reset_confirm_changed") THEN {"reset_yes", "back"}
    ELSE {}

\* The payloads the filter keyboards offer: an amount or count 1..5, a part
\* of the day, or 'none'.
Amounts == {None} \cup {Some(n) : n \in 1..5}

Buckets == {None, Some("morning"), Some("afternoon"), Some("evening")}

\* A filter callback: the session is ensured, one filter is stored.
SetFilter ==
    /\ hpc = "idle"
    /\ stop_events' = Ensured
    /\ UNCHANGED <<events, availability_queues, pending_flights, waiting_for_more,
                   current_search_type, params, settings_changed, threads, handler, env,
                   history>>

\* 'price:<n>': the ceiling is stored in Rials (1M Tomans = 10M Rials)
CallbackPrice(value) ==
    /\ SetFilter
    /\ price_filters' = IF value = None THEN None ELSE Some(Val(value) * 10000000)
    /\ UNCHANGED <<time_filters, seat_filters>>

\* 'time:<bucket>'
CallbackTime(value) ==
    /\ SetFilter
    /\ time_filters' = value
    /\ UNCHANGED <<price_filters, seat_filters>>

\* 'seats:<n>'
CallbackSeats(value) ==
    /\ SetFilter
    /\ seat_filters' = value
    /\ UNCHANGED <<price_filters, time_filters>>

\* ---- settings by button
\* A callback that stores or shows a setting: the session is ensured.
SettingCallback ==
    /\ hpc = "idle"
    /\ stop_events' = Ensured
    /\ UNCHANGED <<events, availability_queues, pending_flights, waiting_for_more,
                   current_search_type, threads, handler, env, history>>

\* 'save_filters'
CallbackSaveFilters ==
    /\ SettingCallback
    /\ settings_changed' = TRUE
    /\ UNCHANGED <<params, price_filters, time_filters, seat_filters>>

\* 'set_destination': the city keyboard is shown
CallbackSetDestination ==
    /\ SettingCallback
    /\ settings_changed' = TRUE
    /\ UNCHANGED <<params, price_filters, time_filters, seat_filters>>

\* 'set_date_range': the interval keyboard is shown
CallbackSetDateRange ==
    /\ SettingCallback
    /\ settings_changed' = TRUE
    /\ UNCHANGED <<params, price_filters, time_filters, seat_filters>>

\* 'interval:<days>': the range starts today
CallbackInterval(days) ==
    /\ SettingCallback
    /\ start_date' = Some(provider.today)
    /\ end_date' = Some(provider.today + days)
    /\ UNCHANGED <<origin, destination, filters>>

\* `next((city for city in TrainCity if city.value["value"] == city_code), None)`
IsCity(city_code) == \E k \in 1..Len(TrainCity) : TrainCity[k].value = city_code

\* 'set_origin:<code>'
CallbackSetOriginCity(city_code) ==
    /\ SettingCallback
    /\ origin' = IF IsCity(city_code) THEN Some(city_code) ELSE origin
    /\ settings_changed' = IF IsCity(city_code) THEN TRUE ELSE settings_changed
    /\ UNCHANGED <<destination, start_date, end_date, price_filters, time_filters,
                   seat_filters>>

\* 'set_destination:<code>'
CallbackSetDestinationCity(city_code) ==
    /\ SettingCallback
    /\ destination' = IF IsCity(city_code) THEN Some(city_code) ELSE destination
    /\ UNCHANGED <<origin, start_date, end_date, filters>>

\* ---- settings by text command
\* The value of a dict entry after process_messages has created the entries
\* of a chat it did not know.
Created(entry, default) == IF stop_events = 0 THEN default ELSE entry

\* A text message that is a settings command.
SettingMessage ==
    /\ hpc = "idle"
    /\ stop_events' = Ensured
    /\ availability_queues' = Created(availability_queues, <<>>)
    /\ pending_flights' = Created(pending_flights, <<>>)
    /\ waiting_for_more' = Created(waiting_for_more, FALSE)
    /\ UNCHANGED <<events, current_search_type, filters, threads, handler, env, stopped,
                   restart, answered>>

\* 'origin:<x>'
MessageOrigin(city_input) ==
    LET found == best_match(city_input, 1, 0, 0)
    IN /\ SettingMessage
       /\ origin' = IF Accepted(found) THEN Some(TrainCity[found[1]].value)
                     ELSE Created(origin, Some(THR))
       /\ reply' = IF Accepted(found) THEN Some("cities.origin_set")
                    ELSE Some("cities.invalid_city")
       /\ destination' = Created(destination, Some(SYZ))
       /\ start_date' = Created(start_date, Some(provider.today))
       /\ end_date' = Created(end_date, Some(provider.today + SearchDays))

\* 'destination:<x>'
MessageDestination(city_input) ==
    LET found == best_match(city_input, 1, 0, 0)
    IN /\ SettingMessage
       /\ destination' = IF Accepted(found) THEN Some(TrainCity[found[1]].value)
                          ELSE Created(destination, Some(SYZ))
       /\ reply' = IF Accepted(found) THEN Some("cities.destination_set")
                    ELSE Some("cities.invalid_city")
       /\ origin' = Created(origin, Some(THR))
       /\ start_date' = Created(start_date, Some(provider.today))
       /\ end_date' = Created(end_date, Some(provider.today + SearchDays))

\* 'days:<n>'
MessageDays(days) ==
    /\ SettingMessage
    /\ origin' = Created(origin, Some(THR))
    /\ destination' = Created(destination, Some(SYZ))
    /\ start_date' = Some(provider.today)
    /\ end_date' = Some(provider.today + days)
    /\ reply' = Some("dates.range_set")

\* ---- clear_search_state
\* self.stop_events[chat_id].set()
ClearSet ==
    /\ hpc = "clear_set"
    /\ events' = [events EXCEPT ![stop_events] = TRUE]
    /\ hpc' = "join_scraper"
    /\ stopped' = (stopped \/ hop = "stop")
    /\ UNCHANGED <<stop_events, availability_queues, pending_flights, waiting_for_more,
                   current_search_type, params, filters, threads, hop, hkind, env,
                   restart, answered, reply>>

\* The handler leaves a join and goes on to the next statement.
JoinReturns(from, to) ==
    /\ hpc = from
    /\ hpc' = to
    /\ UNCHANGED <<session, params, filters, threads, hop, hkind, env, history>>

\* No thread stored, or the thread is (by now) not alive.
JoinScraperDone ==
    /\ ~ScraperAlive
    /\ JoinReturns("join_scraper", "join_notify")

\* join(timeout=5) ran out with the thread still alive: a warning is logged.
\* The five seconds run out only on a thread that is inside a blocking call
\* (the provider request with its retry waits, a send_message request): from
\* any other statement a thread reaches its next stop test within a second.
JoinScraperTimeout ==
    /\ ScraperAlive
    /\ scr[scraper_threads].pc = "fetch"
    /\ JoinReturns("join_scraper", "join_notify")

JoinNotifyDone ==
    /\ ~NotifyAlive
    /\ JoinReturns("join_notify", "drain")

\* join() without a timeout: while the thread is alive the call does not return.
JoinNotifyForever ==
    /\ NotifyAlive
    /\ ~NotifyAlive
    /\ JoinReturns("join_notify", "drain")

JoinNotifyTimeout ==
    /\ NotifyAlive
    /\ Sending(notify_threads)
    /\ JoinReturns("join_notify", "drain")

\* `while not queue.empty(): queue.get_nowait()`
Drain ==
    /\ hpc = "drain"
    /\ availability_queues' = <<>>
    /\ hpc' = "reset"
    /\ UNCHANGED <<stop_events, events, pending_flights, waiting_for_more,
                   current_search_type, params, filters, threads, hop, hkind, env, history>>

\* A reset that empties the dicts instead of the chat's entries.
ResetStateAll ==
    /\ hpc = "reset"
    /\ pending_flights' = <<>>
    /\ waiting_for_more' = FALSE
    /\ current_search_type' = "None"
    /\ stop_events' = stop_events + 1
    /\ hpc' = "after_clear"
    /\ answered' = FALSE
    /\ others' = None
    /\ UNCHANGED <<events, availability_queues, params, filters, threads, hop, hkind,
                   provider, budget, stopped, restart, reply>>

\* The five assignments that end clear_search_state; the last stores a new,
\* unset Event.
ResetState ==
    /\ hpc = "reset"
    /\ pending_flights' = <<>>
    /\ waiting_for_more' = FALSE
    /\ current_search_type' = "None"
    /\ stop_events' = stop_events + 1
    /\ hpc' = "after_clear"
    /\ answered' = FALSE
    /\ UNCHANGED <<events, availability_queues, params, filters, threads, hop, hkind, env,
                   stopped, restart, reply>>

StartsSearch == hop \in {"check_trains", "check_flights", "search"}
                    \/ (hop = "reset_yes" /\ hkind # "None")

\* 'stop', 'new_search', 'reset_yes' without a search: a message, nothing else.
FinishClear ==
    /\ hpc = "after_clear"
    /\ ~StartsSearch
    /\ hpc' = "idle"
    /\ hop' = "none"
    /\ hkind' = "None"
    /\ UNCHANGED <<session, params, filters, threads, env, history>>

\* self.origin.get(chat_id, "THR")
OrDefault(entry, default) == IF entry = None THEN Some(default) ELSE entry

NewScraper(kind, ev) ==
    [pc |-> IF kind = "train" THEN "top" ELSE "begin", kind |-> kind, ev |-> ev,
     origin |-> OrDefault(origin, THR), destination |-> OrDefault(destination, SYZ),
     current_date |-> 0, start |-> start_date, end |-> end_date, info |-> <<>>,
     attempt |-> 0]

NewNotify == [NoNotify EXCEPT !.pc = "init"]

\* The rest of a handler that starts a search: the kind is stored, then
\* start_train_checking / start_flight_checking and the notify_user thread.
StartSearch ==
    /\ hpc = "after_clear"
    /\ StartsSearch
    /\ current_search_type' = hkind
    /\ scr' = [scr EXCEPT ![stop_events] = NewScraper(hkind, stop_events)]
    /\ ntf' = [ntf EXCEPT ![stop_events] = NewNotify]
    /\ scraper_threads' = stop_events
    /\ notify_threads' = stop_events
    /\ hpc' = "idle"
    /\ hop' = "none"
    /\ hkind' = "None"
    /\ stopped' = FALSE
    /\ restart' = IF restart = "pending" THEN "armed" ELSE "no"
    /\ settings_changed' =
          IF hop \in {"check_trains", "check_flights"} THEN FALSE ELSE settings_changed
    /\ UNCHANGED <<stop_events, events, availability_queues, pending_flights,
                   waiting_for_more, params, price_filters, time_filters, seat_filters,
                   env, answered, reply>>

\* ---- another chat
\* What the dicts may hold under another chat_id: no entry, or the kind and
\* the waiting flag of that chat's flight search.
OtherSessions ==
    {None} \cup {Some([current_search_type |-> "flight", waiting_for_more |-> waiting]) :
                    waiting \in BOOLEAN}

\* A handler or a thread of the other chat writes under its own chat_id.
OtherChat ==
    /\ \E other \in OtherSessions : others' = other
    /\ UNCHANGED <<session, params, filters, threads, handler, provider, budget, history>>

\* ------------------------------------------------------------ specification
HandlerStep ==
    \/ HandleMessage
    \/ CallbackStop
    \/ CallbackNewSearch
    \/ CallbackCheckTrains
    \/ CallbackCheckFlights
    \/ CallbackSearch
    \/ CallbackResetYes
    \/ CallbackMore
    \/ CallbackResetNo

ClearStep ==
    \/ ClearSet
    \/ JoinScraperDone
    \/ JoinScraperTimeout
    \/ JoinNotifyDone
    \/ JoinNotifyTimeout
    \/ Drain
    \/ ResetState
    \/ FinishClear
    \/ StartSearch

ScraperStep(t) ==
    \/ TrainTop(t)
    \/ TrainInner(t)
    \/ TrainFetch(t)
    \/ FlightBegin(t)
    \/ FlightLoop(t)
    \/ FlightFetch(t)
    \/ FetchFails(t)

NotifyStep(t) ==
    \/ NotifyInit(t)
    \/ NotifyTop(t)
    \/ NotifyChkWait(t)
    \/ NotifyGet(t)
    \/ NotifyChkSend(t)
    \/ NotifySend(t)
    \/ NotifyExtend(t)
    \/ NotifyPrompt(t)
    \/ NotifySetWait(t)

Next ==
    \/ HandlerStep
    \/ ClearStep
    \/ \E t \in EventIds : ScraperStep(t)
    \/ \E t \in EventIds : NotifyStep(t)

Spec == Init /\ [][Next]_vars

\* ---- a search in progress
\* The state right after the chat's first text message and then 'check_flights'
\* or 'check_trains' were handled: Event 1 was set and replaced by Event 2, and
\* the search's two threads have been started and have not run yet.
Running(kind, clears, answers) ==
    /\ stop_events = 2
    /\ events = [e \in EventIds |-> e = 1]
    /\ availability_queues = <<>>
    /\ pending_flights = <<>>
    /\ waiting_for_more = FALSE
    /\ current_search_type = kind
    /\ origin = Some(THR)
    /\ destination = Some(SYZ)
    /\ start_date = Some(0)
    /\ end_date = Some(SearchDays)
    /\ price_filters = None
    /\ time_filters = None
    /\ seat_filters = None
    /\ settings_changed = FALSE
    /\ scraper_threads = 2
    /\ notify_threads = 2
    /\ scr = [t \in EventIds |-> IF t = 2 THEN NewScraper(kind, 2) ELSE NoScraper]
    /\ ntf = [t \in EventIds |-> IF t = 2 THEN NewNotify ELSE NoNotify]
    /\ hpc = "idle"
    /\ hop = "none"
    /\ hkind = "None"
    /\ provider = answers
    /\ budget = clears
    /\ others = None
    /\ stopped = FALSE
    /\ restart = "no"
    /\ answered = FALSE
    /\ reply = None

\* ---- one 'stop' of a running flight search, every thread scheduled fairly
LiveInit == Running("flight", 1, SmallProvider)

LiveScraperStep(t) == FlightBegin(t) \/ FlightLoop(t) \/ FlightFetch(t) \/ FetchFails(t)

LiveNext ==
    \/ CallbackStop
    \/ CallbackMore
    \/ ClearSet
    \/ JoinScraperDone
    \/ JoinScraperTimeout
    \/ JoinNotifyDone
    \/ JoinNotifyTimeout
    \/ Drain
    \/ ResetState
    \/ FinishClear
    \/ \E t \in EventIds : LiveScraperStep(t)
    \/ \E t \in EventIds : NotifyStep(t)

\* Every thread that can take a step eventually takes one (the interpreter
\* switches threads, every blocking call returns), and a handler that is
\* inside clear_search_state goes on.
LiveSpec ==
    /\ LiveInit
    /\ [][LiveNext]_vars
    /\ WF_vars(ClearStep)
    /\ \A t \in EventIds : WF_vars(LiveScraperStep(t)) /\ WF_vars(NotifyStep(t))

\* ---- the handler's progress when blocking calls of the threads may hang
\* The steps of a thread that are no blocking call.
QuickScraperStep(t) == TrainTop(t) \/ TrainInner(t) \/ FlightBegin(t) \/ FlightLoop(t)

QuickNotifyStep(t) ==
    \/ NotifyInit(t)
    \/ NotifyTop(t)
    \/ NotifyChkWait(t)
    \/ NotifyGet(t)
    \/ NotifyChkSend(t)
    \/ NotifyExtend(t)
    \/ NotifySetWait(t)

StopFairSpec ==
    /\ Init
    /\ [][Next]_vars
    /\ WF_vars(ClearStep)
    /\ \A t \in EventIds : WF_vars(QuickScraperStep(t)) /\ WF_vars(QuickNotifyStep(t))

\* ---- 'check_trains' pressed again and again on top of a running search
\* Every provider query finds something.
FullProvider == Provider(Always({<<F1>>}), Always({<<T1>>}))

RestartInit == Running("flight", MaxClears, FullProvider)

RestartScraperStep(t) ==
    \/ TrainTop(t)
    \/ TrainInner(t)
    \/ TrainFetch(t)
    \/ FlightBegin(t)
    \/ FlightLoop(t)
    \/ FlightFetch(t)

RestartNext ==
    \/ CallbackCheckTrains
    \/ ClearSet
    \/ JoinScraperDone
    \/ JoinScraperTimeout
    \/ JoinNotifyDone
    \/ JoinNotifyTimeout
    \/ Drain
    \/ ResetState
    \/ StartSearch
    \/ \E t \in EventIds : RestartScraperStep(t)
    \/ \E t \in EventIds : NotifyStep(t)

RestartSpec == RestartInit /\ [][RestartNext]_vars

\* ---- the filters are changed while a flight search delivers
\* Provider answers of several flights, in an order that is not the sorted one.
RichProvider == Provider(Always({<<>>, <<F1, F2>>, <<F4, F3>>}), Always({<<>>}))

FilterInit == Running("flight", 0, RichProvider)

FilterNext ==
    \/ \E value \in Amounts : CallbackPrice(value)
    \/ \E value \in Buckets : CallbackTime(value)
    \/ \E value \in Amounts : CallbackSeats(value)
    \/ CallbackMore
    \/ \E t \in EventIds : FlightBegin(t) \/ FlightLoop(t) \/ FlightFetch(t)
    \/ \E t \in EventIds : NotifyStep(t)

FilterSpec == FilterInit /\ [][FilterNext]_vars

\* ---- one batch of n flights is paged out, the user answering the prompts
Copies(item, n) == [k \in 1..n |-> item]

\* The state after the chat's first text message, 'days:0' and 'check_flights',
\* once the scraper has swept the range's only date, put its n flights as one
\* batch and returned; notify_user has not run yet.
Swept(n) ==
    /\ stop_events = 2
    /\ events = [e \in EventIds |-> e = 1]
    /\ availability_queues = <<Copies(F1, n)>>
    /\ pending_flights = <<>>
    /\ waiting_for_more = FALSE
    /\ current_search_type = "flight"
    /\ origin = Some(THR)
    /\ destination = Some(SYZ)
    /\ start_date = Some(0)
    /\ end_date = Some(0)
    /\ price_filters = None
    /\ time_filters = None
    /\ seat_filters = None
    /\ settings_changed = FALSE
    /\ scraper_threads = 2
    /\ notify_threads = 2
    /\ scr = [t \in EventIds |-> IF t = 2 THEN ScraperEnded("done") ELSE NoScraper]
    /\ ntf = [t \in EventIds |-> IF t = 2 THEN NewNotify ELSE NoNotify]
    /\ hpc = "idle"
    /\ hop = "none"
    /\ hkind = "None"
    /\ provider = Provider(Always({Copies(F1, n)}), Always({<<>>}))
    /\ budget = 0
    /\ others = None
    /\ stopped = FALSE
    /\ restart = "no"
    /\ answered = FALSE
    /\ reply = None

PagingInit == \E n \in 1..MaxItems : Swept(n)

PagingNext ==
    \/ CallbackMore
    \/ \E t \in EventIds : NotifyStep(t)

PagingSpec == PagingInit /\ [][PagingNext]_vars

\* ---- a search polls its date range, no handler interfering
\* The departures the provider has differ from date to date.
DatedProvider ==
    Provider([d \in Dates |-> IF d = 0 THEN {<<>>, <<F1>>} ELSE {<<>>, <<F4>>}],
             [d \in Dates |-> IF d = 0 THEN {<<>>, <<T1>>} ELSE {<<>>, <<T2>>}])

SweepInit == \E kind \in {"train", "flight"} : Running(kind, 0, DatedProvider)

SweepScraperStep(t) ==
    \/ TrainTop(t)
    \/ TrainInner(t)
    \/ TrainFetch(t)
    \/ FlightBegin(t)
    \/ FlightLoop(t)
    \/ FlightFetch(t)

SweepNext ==
    \/ CallbackMore
    \/ \E t \in EventIds : SweepScraperStep(t)
    \/ \E t \in EventIds : NotifyStep(t)

SweepSpec == SweepInit /\ [][SweepNext]_vars

\* ---- a search polls while requests to the provider fail
RetryInit == \E kind \in {"train", "flight"} : Running(kind, 0, SmallProvider)

RetryNext ==
    \/ CallbackMore
    \/ \E t \in EventIds : SweepScraperStep(t)
    \/ \E t \in EventIds : AttemptFails(t)
    \/ \E t \in EventIds : LastAttemptFails(t)
    \/ \E t \in EventIds : NotifyStep(t)

RetrySpec == RetryInit /\ [][RetryNext]_vars

\* ---- midnight passes while a search polls
PastInit == \E kind \in {"train", "flight"} : Running(kind, 0, SmallProvider)

\* Midnight, at a moment when no polling thread is inside a fetch.
MidnightBetweenFetches == Midnight /\ \A t \in EventIds : scr[t].pc # "fetch"

PastNext ==
    \/ MidnightBetweenFetches
    \/ CallbackMore
    \/ \E t \in EventIds : SweepScraperStep(t)
    \/ \E t \in EventIds : FlightReject(t)
    \/ \E t \in EventIds : AttemptFails(t)
    \/ \E t \in EventIds : LastAttemptFails(t)
    \/ \E t \in EventIds : NotifyStep(t)

PastSpec == PastInit /\ [][PastNext]_vars

\* ---- a flight search delivers and the user presses More at any moment
MoreInit == Running("flight", 0, SmallProvider)

MoreNext ==
    \/ CallbackMore
    \/ \E t \in EventIds : FlightBegin(t) \/ FlightLoop(t) \/ FlightFetch(t)
    \/ \E t \in EventIds : NotifyStep(t)

\* Both threads are scheduled and their blocking calls return; nothing is
\* assumed about when the user presses More.
MoreSpec ==
    /\ MoreInit
    /\ [][MoreNext]_vars
    /\ \A t \in EventIds : WF_vars(FlightBegin(t) \/ FlightLoop(t) \/ FlightFetch(t))
    /\ \A t \in EventIds : WF_vars(NotifyStep(t))

\* ---- 'reset_yes' on a new chat and on a running flight search, the date
\* range being changed by text command
ResetInit == Init \/ Running("flight", 1, FullProvider)

ResetNext ==
    \/ \E days \in 0..SearchDays : MessageDays(days)
    \/ CallbackResetYes
    \/ ClearStep
    \/ \E t \in EventIds : FlightBegin(t) \/ FlightLoop(t) \/ FlightFetch(t)
    \/ \E t \in EventIds : NotifyStep(t)

ResetSpec == ResetInit /\ [][ResetNext]_vars

\* ---- a chat with a train search changes its settings and searches again
\* The provider has no departures.
QuietProvider == Provider(Always({<<>>}), Always({<<>>}))

SettingsInit == Running("train", 1, QuietProvider)

SettingsNext ==
    \/ CallbackPrice(Some(1))
    \/ CallbackSaveFilters
    \/ CallbackSetDestination
    \/ CallbackSetDateRange
    \/ CallbackInterval(SearchDays)
    \/ CallbackSetOriginCity(THR)
    \/ CallbackSetDestinationCity(SYZ)
    \/ MessageOrigin(THR)
    \/ MessageDays(SearchDays)
    \/ CallbackCheckTrains
    \/ CallbackSearch
    \/ ClearSet
    \/ JoinScraperDone
    \/ JoinScraperTimeout
    \/ JoinNotifyDone
    \/ Drain
    \/ ResetState
    \/ StartSearch
    \/ \E t \in EventIds : TrainTop(t) \/ TrainInner(t) \/ TrainFetch(t)
    \/ \E t \in EventIds : NotifyInit(t) \/ NotifyTop(t) \/ NotifyChkWait(t)
    \/ \E t \in EventIds : NotifyGet(t)

SettingsSpec == SettingsInit /\ [][SettingsNext]_vars

\* ---- a flight search delivers departures, some of which cannot be rendered
PartialProvider == Provider(Always({<<>>, <<F1>>, <<F1, F5, F3>>}), Always({<<>>}))

DeliverInit == Running("flight", 0, PartialProvider)

DeliverNext ==
    \/ CallbackMore
    \/ \E t \in EventIds : FlightBegin(t) \/ FlightLoop(t) \/ FlightFetch(t)
    \/ \E t \in EventIds : NotifyStep(t)
    \/ \E t \in EventIds : NotifySkip(t)

DeliverSpec == DeliverInit /\ [][DeliverNext]_vars

\* ---- a new chat names its cities, by text command and by button
CityNext ==
    \/ \E city_input \in CityInputs : MessageOrigin(city_input)
    \/ \E city_input \in CityInputs : MessageDestination(city_input)
    \/ \E k \in 1..Len(TrainCity) : CallbackSetOriginCity(TrainCity[k].value)
    \/ \E k \in 1..Len(TrainCity) : CallbackSetDestinationCity(TrainCity[k].value)
    \/ CallbackSetDestination

CitySpec == Init /\ [][CityNext]_vars

\* ---- a flight search whose provider answers with more than a page per date
LongProvider == Provider(Always({Copies(F1, batch_size + 1)}), Always({<<>>}))

BufferInit == Running("flight", 0, LongProvider)

BufferSpec == BufferInit /\ [][MoreNext]_vars

\* ---- a search that is not stopped, the user answering every prompt
AnsweredInit == \E kind \in {"train", "flight"} : Running(kind, 0, SmallProvider)

\* 'more' pressed in answer to a prompt.
AnswerMore == waiting_for_more /\ CallbackMore

AnsweredNext ==
    \/ AnswerMore
    \/ \E t \in EventIds : SweepScraperStep(t)
    \/ \E t \in EventIds : NotifyStep(t)

\* Both threads are scheduled, their blocking calls return, and a prompt that
\* stays unanswered is answered.
AnsweredSpec ==
    /\ AnsweredInit
    /\ [][AnsweredNext]_vars
    /\ \A t \in EventIds : WF_vars(SweepScraperStep(t))
    /\ \A t \in EventIds : WF_vars(NotifyStep(t))
    /\ WF_vars(AnswerMore)

\* ---- a flight search whose provider sends a departure without its time
MalformedProvider == Provider(Always({<<>>, <<F1>>, <<F1, F6>>}), Always({<<>>}))

MalformedInit == Running("flight", 0, MalformedProvider)

MalformedSpec == MalformedInit /\ [][MoreNext]_vars

\* ---- 'reset' and 'reset_no' on a new chat and on a flight search
MenuInit == Init \/ Running("flight", 1, SmallProvider)

MenuNext ==
    \/ CallbackReset
    \/ CallbackResetNo
    \/ CallbackSaveFilters
    \/ CallbackStop
    \/ ClearSet
    \/ JoinScraperDone
    \/ JoinScraperTimeout
    \/ JoinNotifyDone
    \/ JoinNotifyTimeout
    \/ Drain
    \/ ResetState
    \/ FinishClear
    \/ \E t \in EventIds : FlightBegin(t) \/ FlightLoop(t) \/ FlightFetch(t)
    \/ \E t \in EventIds : NotifyStep(t)

MenuSpec == MenuInit /\ [][MenuNext]_vars

\* ---- a flight search of one chat while another chat uses the bot
PairInit == Running("flight", 1, FullProvider)

PairNext ==
    \/ OtherChat
    \/ CallbackCheckFlights
    \/ CallbackStop
    \/ CallbackResetYes
    \/ CallbackMore
    \/ CallbackPrice(Some(1))
    \/ ClearStep
    \/ \E t \in EventIds : FlightBegin(t) \/ FlightLoop(t) \/ FlightFetch(t)
    \/ \E t \in EventIds : NotifyStep(t)

PairSpec == PairInit /\ [][PairNext]_vars

\* ---- a chat with a train search sets its date range and searches again
\* The numbers int() reads from the text after 'days:': a sign is accepted.
DaysInputs == (0 - 1)..SearchDays

RangeInit == Running("train", 1, QuietProvider)

RangeNext ==
    \/ \E days \in DaysInputs : MessageDays(days)
    \/ CallbackInterval(SearchDays)
    \/ CallbackCheckTrains
    \/ ClearSet
    \/ JoinScraperDone
    \/ JoinScraperTimeout
    \/ JoinNotifyDone
    \/ Drain
    \/ ResetState
    \/ StartSearch
    \/ \E t \in EventIds : TrainTop(t) \/ TrainInner(t) \/ TrainFetch(t)
    \/ \E t \in EventIds : NotifyInit(t) \/ NotifyTop(t) \/ NotifyChkWait(t)
    \/ \E t \in EventIds : NotifyGet(t)

RangeSpec == RangeInit /\ [][RangeNext]_vars

\* -------------------------------------------------------------------- claims
\* The transition in which notify_user thread t sends one result item.
SendStep(t) ==
    /\ ntf[t].pc = "send"
    /\ ntf'[t].pc = "send"
    /\ ntf'[t].i = ntf[t].i + 1
    /\ ~RenderRaises(ntf[t].batch[ntf[t].i])

\* The transition in which polling thread t puts a batch on the queue.
PutStep(t) ==
    /\ scr[t].pc = "fetch"
    /\ scr'[t].pc \in {"inner", "loop"}
    /\ Len(availability_queues') = Len(availability_queues) + 1

LiveScrapers == {t \in EventIds : Alive(scr[t].pc)}

LiveNotifiers == {t \in EventIds : Alive(ntf[t].pc)}

\* 'stop' has returned and no search was started since.
StopReturned == stopped /\ hpc = "idle"

\* C1: at most one polling thread and at most one notify_user thread of the
\* chat is alive at any time, whatever the joins of clear_search_state did.
C1_OneLoopPair == Cardinality(LiveScrapers) <= 1 /\ Cardinality(LiveNotifiers) <= 1

\* C2: from the moment 'stop' has set the stop signal until a new search is
\* started, no result item is sent to the chat.
C2_NoSendAfterStop == [][(\E t \in EventIds : SendStep(t)) => ~stopped]_vars

\* C3: a polling thread whose stop event is set puts no batch on the queue.
C3_NoPutAfterSignal == [][\A t \in EventIds : PutStep(t) => ~is_set(scr[t].ev)]_vars

\* C4: from the return of 'stop' until the next start the queue is empty,
\* pending_flights is empty, waiting_for_more is false and the kind is None.
C4_StopLeavesIdle ==
    StopReturned =>
        /\ availability_queues = <<>>
        /\ pending_flights = <<>>
        /\ ~waiting_for_more
        /\ current_search_type = "None"

\* C7: from the return of 'stop' until the next start the chat's stop event,
\* as notify_user reads it, is set.
C7_SignalStaysSet == StopReturned => is_set(stop_events)

\* C5: every polling thread and every notify_user thread that is alive when
\* clear_search_state sets the stop signal eventually terminates.
C5_LoopsTerminate ==
    \A t \in EventIds :
        (hpc = "join_scraper" /\ (Alive(scr[t].pc) \/ Alive(ntf[t].pc)))
            ~> (~Alive(scr[t].pc) /\ ~Alive(ntf[t].pc))

\* C6: clear_search_state always returns: a handler that entered it gets past
\* both joins and the drain, resets the session state and reaches the
\* statement after the call, whether or not the threads saw the stop signal.
C6_StopCompletes == (hpc = "clear_set") ~> (hpc = "after_clear")

\* C6 witness: the handler is past a join whose thread is still alive.
C6_Witness == hpc \in {"drain", "reset", "after_clear"} /\ (ScraperAlive \/ NotifyAlive)

\* The number notify_user prints in front of the item it is sending.
Number(t) == ntf[t].first + ntf[t].i - 1

\* C8: once 'check_trains' has restarted a train search that was active,
\* pending_flights is empty until the next delivery, and the first item
\* delivered after the restart is numbered 1.
C8_RestartFromOne ==
    [][/\ restart' = "armed" => pending_flights' = <<>>
       /\ restart = "armed" => \A t \in EventIds : SendStep(t) => Number(t) = 1]_vars

\* The item notify_user is sending.
Item(t) == ntf[t].batch[ntf[t].i]

\* C9: every delivered item satisfies the filters the session holds: below the
\* price ceiling, at least the seat floor, departing inside the time bucket.
C9_DeliveredPassFilters ==
    [][\A t \in EventIds : SendStep(t) =>
          /\ price_filters # None => Item(t).priceAdult < Val(price_filters)
          /\ seat_filters # None => Item(t).seat >= Val(seat_filters)
          /\ time_filters # None => InBucket(Val(time_filters), departure_hour(Item(t)))]_vars

\* The departure timestamp as a number of hours.
Timestamp(item) ==
    item.leaveDateTime[1] * 24 + item.leaveDateTime[2] * 10 + item.leaveDateTime[3]

NonDecreasing(s) ==
    \A k \in 1..(Len(s) - 1) :
        \/ Timestamp(s[k]) < Timestamp(s[k + 1])
        \/ Timestamp(s[k]) = Timestamp(s[k + 1]) /\ s[k].priceAdult <= s[k + 1].priceAdult

\* C10: the buffer the filter/sort step fills from a dequeued batch, and every
\* page cut from it, is in non-decreasing order of (departure timestamp, price).
C10_PagesSorted ==
    \A t \in EventIds : NonDecreasing(ntf[t].current_items) /\ NonDecreasing(ntf[t].batch)

\* C10 witness: a batch that came out of the queue unsorted has been
\* filtered and sorted into a buffer of several items.
C10_Witness ==
    \E t \in EventIds :
        /\ ntf[t].pc = "chk_send"
        /\ ~NonDecreasing(ntf[t].new_items)
        /\ Len(ntf[t].current_items) >= 3

\* The items of the batch: those delivered, those buffered, those still queued.
Surviving(t) ==
    Len(pending_flights) + Len(ntf[t].current_items)
        + (IF availability_queues = <<>> THEN 0 ELSE Len(Head(availability_queues)))

Smaller(a, b) == IF a < b THEN a ELSE b

\* A page being sent starts after a multiple of 10 delivered items and holds
\* 10 items, or all that are left of the batch when these are fewer.
PageOfTen(t) ==
    ntf[t].pc = "send" =>
        /\ Len(pending_flights) % 10 = 0
        /\ Len(ntf[t].batch) = Smaller(10, Surviving(t) - Len(pending_flights))

\* The number of items the provider answered with.
Answered == Len(CHOOSE answer \in provider.flight[0] : TRUE)

\* C11: the N items of one batch go out in pages of 10, none lost and none
\* repeated: every page starts after a multiple of 10 delivered items and
\* holds 10 items, the last one the N mod 10 (or 10) that are left, which
\* makes ceil(N/10) pages.
C11_PagesOfTen ==
    /\ \A t \in EventIds : PageOfTen(t)
    /\ Surviving(notify_threads) = Answered

\* C11 witness: the third and last page of 23 items has been sent in full.
C11_Witness ==
    /\ ntf[notify_threads].pc = "send"
    /\ Len(pending_flights) = 20
    /\ Len(ntf[notify_threads].batch) = 3
    /\ ntf[notify_threads].i = 4

\* C12: no item is delivered that was delivered before in the same search.
C12_NoItemTwice ==
    [][\A t \in EventIds : SendStep(t) =>
          /\ \A k \in 1..Len(pending_flights) : pending_flights[k] # Item(t)
          /\ \A k \in 1..(ntf[t].i - 1) : ntf[t].batch[k] # Item(t)]_vars

\* A fetch returns to the polling loop, which puts or skips and goes on.
FetchReturns(t) == scr[t].pc = "fetch" /\ scr'[t].pc \in {"inner", "loop"}

\* What the fetch that returns has added to the scraper's list.
Fetched(t) == Drop(scr'[t].info, Len(scr[t].info))

\* C13: after the fetch for a date the polling loop enqueues one batch holding
\* exactly the items fetched for that date, and nothing when there were none.
C13_OneBatchPerDate ==
    [][\A t \in EventIds : FetchReturns(t) =>
          availability_queues' =
              IF Fetched(t) = <<>> THEN availability_queues
              ELSE Append(availability_queues, Fetched(t))]_vars

\* C14: a polling thread ends only when its stop signal is set.
C14_PollsUntilStopped ==
    [][\A t \in EventIds :
          (Alive(scr[t].pc) /\ ~Alive(scr'[t].pc)) => is_set(scr[t].ev)]_vars

\* C15: the step that follows the last attempt of a fetch, failed or not,
\* leaves the polling thread running and takes it to the next date.
C15_FailureSkipsDate ==
    [][\A t \in EventIds :
          (scr[t].pc = "fetch" /\ scr[t].attempt = 5 /\ scr'[t] # scr[t]) =>
              /\ Alive(scr'[t].pc)
              /\ scr'[t].current_date = scr[t].current_date + 1]_vars

\* C16: a fetch makes at most 5 attempts, one at a time, and it fails to its
\* caller (which ends the thread) only when the fifth attempt has failed.
C16_FiveAttempts ==
    [][\A t \in EventIds :
          /\ scr'[t].attempt <= 5
          /\ (scr[t].pc = "fetch" /\ scr'[t].pc = "fetch") =>
                scr'[t].attempt \in {scr[t].attempt, scr[t].attempt + 1}
          /\ (scr[t].pc = "fetch" /\ scr'[t].pc = "dead") => scr[t].attempt = 5]_vars

\* C16 witness: a fetch has failed to its caller.
C16_Witness == \E t \in EventIds : scr[t].pc = "dead"

\* C17: a fetch for a date before the provider's current date ends without a
\* retry, adds no item and no batch, and the polling loop goes on to the next
\* date.
C17_PastDateRejected ==
    [][\A t \in EventIds :
          (/\ scr[t].pc = "fetch"
           /\ scr[t].current_date < provider.today
           /\ scr'[t] # scr[t]) =>
              /\ scr'[t].pc \in {"inner", "loop"}
              /\ scr'[t].current_date = scr[t].current_date + 1
              /\ scr'[t].info = scr[t].info
              /\ availability_queues' = availability_queues]_vars

\* A batch is queued or items are left in a notify_user buffer.
ItemsRemain ==
    \/ availability_queues # <<>>
    \/ \E t \in EventIds : ntf[t].current_items # <<>>

\* C18: once More has been handled after a page prompt and items are there to
\* deliver, an item of the next page is sent without another More.
C18_MoreResumes == (answered /\ ItemsRemain) ~> ~answered

\* The transition in which notify_user, past the last item of a page, records
\* the page and decides whether to prompt.
PageSent(t) ==
    /\ ntf[t].pc = "send"
    /\ ntf[t].i > Len(ntf[t].batch)
    /\ ntf'[t].pc \in {"prompt", "top"}

\* C19: after a page notify_user goes on to send the more-prompt, and then to
\* set waiting_for_more, exactly when items are left in its buffer or the
\* search it delivers for has not been stopped.
C19_PromptIffMore ==
    [][\A t \in EventIds : PageSent(t) =>
          (ntf'[t].pc = "prompt" <=> (ntf'[t].current_items # <<>> \/ ~events[t]))]_vars

\* C20: every item delivered while a search of kind K is the chat's current
\* search is of kind K (a train item for "train", a flight item for "flight")
\* and has a seat count above 0.
C20_DeliveredOfKind ==
    [][\A t \in EventIds : SendStep(t) =>
          /\ current_search_type = "train" => is_train(Item(t))
          /\ current_search_type = "flight" => ~is_train(Item(t))
          /\ Item(t).seat > 0]_vars

\* The items of s that were sent to the chat when notify_user went through s.
Sent(s) == SelectSeq(s, LAMBDA item : ~RenderRaises(item))

\* The items of the page in progress that precede the one at hand.
PageSoFar(t) == SubSeq(ntf[t].batch, 1, ntf[t].i - 1)

\* C21: within a search the items sent are numbered 1, 2, 3, ... without gap
\* or repeat (an item's number is one more than the count of items sent before
\* it), and each page adds to pending_flights exactly the items it sent.
C21_NumberedInOrder ==
    [][\A t \in EventIds :
          /\ SendStep(t) =>
                Number(t) = Len(pending_flights) + Len(Sent(PageSoFar(t))) + 1
          /\ PageSent(t) => pending_flights' = pending_flights \o Sent(ntf[t].batch)]_vars

\* The transition in which rendering an item of the page raises.
SkipStep(t) ==
    /\ ntf[t].pc = "send"
    /\ ntf[t].i <= Len(ntf[t].batch)
    /\ RenderRaises(Item(t))
    /\ ntf'[t] # ntf[t]

\* C23: when rendering one item of a page raises, notify_user goes on with the
\* next item of the same page, its buffer, the queue and the stop signal
\* untouched, and the end of the page is followed by the prompt as after
\* any page.
C23_SkipsOneItem ==
    [][\A t \in EventIds :
          /\ SkipStep(t) =>
                /\ ntf'[t] = [ntf[t] EXCEPT !.i = @ + 1]
                /\ UNCHANGED <<session, scr>>
          /\ (PageSent(t) /\ ~is_set(stop_events)) => ntf'[t].pc = "prompt"]_vars

\* C23 witness: the prompt of a three-item page has been sent, the page's
\* first item having been skipped and its last one sent.
C23_Witness ==
    \E t \in EventIds :
        /\ ntf[t].pc = "set_wait"
        /\ pending_flights = <<F5, F3, F1>>

\* The transition in which notify_user thread t takes a batch from the queue.
GetStep(t) ==
    /\ ntf[t].pc = "get"
    /\ availability_queues # <<>>
    /\ ntf'[t] # ntf[t]

\* C22: the queue hands the batches to notify_user in the order the polling
\* thread put them: a put places the batch behind all queued ones, a get takes
\* the batch that was put first and leaves the others in their order.
C22_QueueIsFifo ==
    [][\A t \in EventIds :
          /\ PutStep(t) =>
                SubSeq(availability_queues', 1, Len(availability_queues))
                    = availability_queues
          /\ GetStep(t) =>
                /\ ntf'[t].new_items = Head(availability_queues)
                /\ availability_queues' = Tail(availability_queues)]_vars

\* C22 witness: of two batches queued, notify_user has taken the one put
\* first and the one put second is still queued.
C22_Witness ==
    \E t \in EventIds :
        /\ ntf[t].pc = "chk_send"
        /\ ntf[t].new_items = <<F1>>
        /\ availability_queues = << <<F1, F4>> >>

\* The transition that ends the handling of a 'check_trains' pressed while the
\* chat's search was not a train search: the stored kind and the new threads.
SwitchStart ==
    /\ hpc = "after_clear"
    /\ hpc' = "idle"
    /\ hop = "check_trains"
    /\ restart # "pending"

\* C24: 'check_trains' on top of a flight search stops that search first (its
\* stop event is set) and only then starts the new threads; when the handler
\* is done the stored kind is "train", pending_flights is empty and
\* waiting_for_more is false.
C24_SwitchStopsFirst ==
    [][SwitchStart =>
          /\ is_set(stop_events - 1)
          /\ current_search_type' = "train"
          /\ pending_flights' = <<>>
          /\ waiting_for_more' = FALSE]_vars

\* The transition that ends the handling of 'reset_yes'.
ResetYesEnds == hpc = "after_clear" /\ hpc' = "idle" /\ hop = "reset_yes"

\* C25: 'reset_yes' keeps the kind of the search that is active when it is
\* received; neither the kind kept nor the cities and dates change while it
\* is handled; when a kind was kept the handler, the old stop event set, ends
\* by storing that kind and starting a polling thread of that kind with the
\* chat's cities and date range; when none was kept it starts no thread.
C25_ResetRestartsSame ==
    [][/\ (hpc = "idle" /\ hop' = "reset_yes") => hkind' = current_search_type
       /\ (hop = "reset_yes" /\ hop' = "reset_yes") => UNCHANGED <<hkind, params>>
       /\ ResetYesEnds =>
             /\ UNCHANGED params
             /\ IF hkind # "None"
                THEN /\ is_set(stop_events - 1)
                     /\ current_search_type' = hkind
                     /\ scraper_threads' = stop_events
                     /\ notify_threads' = stop_events
                     /\ scr'[stop_events].kind = hkind
                     /\ scr'[stop_events].origin = OrDefault(origin, THR)
                     /\ scr'[stop_events].destination = OrDefault(destination, SYZ)
                     /\ scr'[stop_events].start = start_date
                     /\ scr'[stop_events].end = end_date
                     /\ ntf'[stop_events].pc = "init"
                ELSE UNCHANGED <<threads, current_search_type>>]_vars

\* C25 witness: after 'days:0' a 'reset_yes' has restarted the flight search,
\* whose new polling thread has the one-day range.
C25_Witness ==
    /\ hpc = "idle"
    /\ stop_events = 3
    /\ current_search_type = "flight"
    /\ scr[3].kind = "flight"
    /\ scr[3].pc = "begin"
    /\ scr[3].end = Some(0)

\* The transition changes a city, a date or a filter of a chat that exists.
SettingChanges ==
    /\ stop_events # 0
    /\ <<params, price_filters, time_filters, seat_filters>>'
          # <<params, price_filters, time_filters, seat_filters>>

\* The transition that ends a handler which started a search.
SearchStarts == hpc = "after_clear" /\ hpc' = "idle" /\ StartsSearch

\* C26: settings_changed becomes true when a city, a date or a filter is
\* changed, false when a search is started, and changes at no other moment:
\* in every state it tells whether a setting was changed after the last
\* search start.
C26_ChangedSinceStart ==
    [][/\ SettingChanges => settings_changed'
       /\ SearchStarts => ~settings_changed'
       /\ (~SettingChanges /\ ~SearchStarts) => UNCHANGED settings_changed]_vars

\* The chat has its entries: the cities, the date range and the stop event.
SessionDefined ==
    /\ stop_events # 0
    /\ origin # None
    /\ destination # None
    /\ start_date # None
    /\ end_date # None

\* C27: from the chat's first interaction on, message or callback, its cities
\* and date range are defined, every polling thread is started with a defined
\* date range, and the chat's entries are never removed.
C27_SessionCreated ==
    /\ [](stop_events # 0 => SessionDefined)
    /\ [](\A t \in EventIds : Alive(scr[t].pc) => scr[t].start # None /\ scr[t].end # None)
    /\ [][stop_events # 0 => stop_events' # 0]_vars

\* C28: whenever the chat's stored search kind is None, no polling thread and
\* no notify_user thread of the chat is running.
C28_IdleHasNoLoops ==
    current_search_type = "None" => (LiveScrapers = {} /\ LiveNotifiers = {})

\* The fetch that returns has brought a departure with a free seat, a
\* departure without a seat count having none.
HasFreeSeat(t) ==
    \E k \in 1..Len(Fetched(t)) : Get(Fetched(t)[k], "seat", 0) > 0

\* C29: the polling loop puts a batch on the queue after the fetch for a date
\* only if that fetch returned at least one departure with a seat count above 0.
C29_PutOnlyWithSeats ==
    [][\A t \in EventIds : PutStep(t) => HasFreeSeat(t)]_vars

\* What the claimed rule makes of a city command in a chat that has a session:
\* from a similarity of 80 on the field is the best-matching city's code, below
\* it the command is answered as invalid and both cities stay.
FromEighty(city_input, field, set_key) ==
    LET found == best_match(city_input, 1, 0, 0)
    IN IF found[2] >= 80
       THEN /\ field' = Some(TrainCity[found[1]].value)
            /\ reply' = Some(set_key)
       ELSE /\ reply' = Some("cities.invalid_city")
            /\ UNCHANGED <<origin, destination>>

\* C30: 'origin:<x>' and 'destination:<x>' set the field to the best-matching
\* city exactly when the best similarity of x to a city code or name is at
\* least 80, and otherwise report an invalid city and leave both cities alone.
C30_CityFromEighty ==
    [][stop_events # 0 =>
          \A city_input \in CityInputs :
              /\ MessageOrigin(city_input) =>
                    FromEighty(city_input, origin, "cities.origin_set")
              /\ MessageDestination(city_input) =>
                    FromEighty(city_input, destination, "cities.destination_set")]_vars

\* C31: while waiting_for_more is true no notify_user thread of the chat takes
\* a batch from the queue or sends an item.
C31_WaitsForMore ==
    [][\A t \in EventIds : (GetStep(t) \/ SendStep(t)) => ~waiting_for_more]_vars

\* C32: notify_user takes a batch from the queue only when its buffer is empty,
\* and the buffer then holds the surviving items of that batch and nothing
\* else, so a batch is paged out before a later one is taken.
C32_OneBatchBuffered ==
    [][\A t \in EventIds : GetStep(t) =>
          /\ ntf[t].current_items = <<>>
          /\ ntf'[t].current_items \in
                {<<>>, valid_items(ntf[t].search_type, Head(availability_queues),
                                   price_filters, time_filters, seat_filters)}]_vars

\* The first batch has been paged out in two pages and the second one, of
\* twice as many flights, is in the buffer.
C32_Witness ==
    \E t \in EventIds :
        /\ Len(pending_flights) = batch_size + 1
        /\ Len(ntf[t].current_items) = 2 * (batch_size + 1)

\* A train with free seats that passes the chat's filters is in a batch that
\* notify_user has taken from the queue.
TrainTaken ==
    \E t \in EventIds : \E k \in 1..Len(ntf[t].new_items) :
        /\ Get(ntf[t].new_items[k], "seat", 0) > 0
        /\ seat_filters # None => Get(ntf[t].new_items[k], "seat", 0) >= Val(seat_filters)
        /\ price_filters # None => Get(ntf[t].new_items[k], "priceAdult", 0) < Val(price_filters)

\* C33: in a train search that is not stopped and whose prompts are answered,
\* a train with free seats that passes the filters is eventually delivered.
C33_TrainsDelivered ==
    (current_search_type = "train" /\ TrainTaken) ~> (pending_flights # <<>>)

\* The item carries the departure time the filter reads.
WellFormed(item) == "leaveDateTime" \in DOMAIN item /\ item.leaveDateTime # None

\* C34: when notify_user takes a batch that holds a malformed item, every
\* well-formed item of the batch that is of the search's kind and passes the
\* filters is put into the buffer.
C34_MalformedSkipsOne ==
    [][\A t \in EventIds : GetStep(t) =>
          \A k \in 1..Len(Head(availability_queues)) :
              LET item == Head(availability_queues)[k]
              IN (/\ WellFormed(item)
                  /\ KindOK(ntf[t].search_type, item)
                  /\ PassesFilters(item, price_filters, time_filters, seat_filters))
                 => \E j \in 1..Len(ntf'[t].current_items) :
                        ntf'[t].current_items[j] = item]_vars

\* 'reset' is answered: the reply recorded is one of its three.
ResetAnswered ==
    /\ hpc = "idle"
    /\ reply' # reply
    /\ reply' \in {Some("search.select_search_type"), Some("search.reset_confirm"),
                   Some("search.reset_confirm_changed")}

\* C35: 'reset' offers reset_no exactly when a search is stored and
\* settings_changed is false; when the flag is true it offers reset_yes without
\* reset_no; when no search is stored it offers neither, and no thread and no
\* stop signal changes.
C35_ResumeOffered ==
    [][ResetAnswered =>
          /\ "reset_no" \in Buttons(reply') <=>
                (current_search_type # "None" /\ ~settings_changed)
          /\ "reset_yes" \in Buttons(reply') <=> current_search_type # "None"
          /\ UNCHANGED <<events, threads, current_search_type>>]_vars

\* A flight search whose settings were saved since its start has been
\* answered with the confirmation that has no resume button.
C35_Witness ==
    /\ reply = Some("search.reset_confirm_changed")
    /\ current_search_type = "flight"
    /\ settings_changed

\* C36: whenever a search is stored and the handler is free, 'reset_no' ends
\* with waiting_for_more false and with the kind, the threads, the stop
\* signal, the queue and pending_flights as they were.
C36_ResumeClearsWait ==
    (hpc = "idle" /\ current_search_type # "None") =>
        ENABLED (/\ CallbackResetNo
                 /\ ~waiting_for_more'
                 /\ UNCHANGED <<current_search_type, threads, stop_events, events,
                                availability_queues, pending_flights>>)

\* The item is a dict as the scraper of that kind builds it.
BuiltBy(kind, item) ==
    IF kind = "train" THEN "departure" \in DOMAIN item ELSE "flightNumber" \in DOMAIN item

\* C37: a batch that the notify_user thread of a search takes from the queue
\* was put by the polling thread of that search; in particular its items are
\* dicts of that search's scraper.
C37_OwnBatchesOnly ==
    [][\A t \in EventIds :
          (GetStep(t) /\ ntf[t].search_type # "None") =>
              \A k \in 1..Len(Head(availability_queues)) :
                  BuiltBy(ntf[t].search_type, Head(availability_queues)[k])]_vars

C39_RangeOrdered ==
    (start_date # None /\ end_date # None) => Val(start_date) <= Val(end_date)

====
